---- MODULE Spec2Model ----
(***************************************************************************)
(* A model of Alexandria's render pipeline (render.go) and of its bleve    *)
(* index and query engine (bleve.go).                                      *)
(*                                                                         *)
(* Names of files and identifiers are sequences of tokens, so that         *)
(* strings.HasSuffix, strings.TrimSuffix and filepath.Glob are computed    *)
(* rather than assumed.  Errors are sequences of messages: the empty       *)
(* sequence is nil, errors.Wrap prepends a message to a non-nil error.     *)
(***************************************************************************)
EXTENDS Integers, Sequences, FiniteSets, TLC

(***************************************************************************)
(* Bounds of the model.                                                    *)
(***************************************************************************)
NumIds == 4

\* How many of the identifiers the render-one operation is applied to.
NumRenderIds == 2

\* Config.MaxResults: the most hits a query returns.
MaxResults == 4

\* How many of the identifiers have a source file where updateIndex runs.
NumIndexIds == 2

\* The latest time of the clock.
MaxTime == 2

\* How many .tex files renderAllScrolls finds in the knowledge directory.
NumSchedIds == 2

\* The largest Config.MaxProcs.
MaxMaxProcs == 2

\* How many space-separated terms a query string has at most.
MaxTerms == 3

\* How many failures of the environment (an input/output error, a failing
\* external process, a failing index operation) one behaviour contains.
MaxFaults == 1

(***************************************************************************)
(* Identifiers and file names.                                             *)
(***************************************************************************)
IdPool ==
    << <<"a">>, <<"a", ".", "b">>, <<"c">>, <<"d">>, <<"e">>, <<"f">>, <<"g">> >>

Ids == { IdPool[i] : i \in 1..NumIds }

RenderIds == { IdPool[i] : i \in 1..NumRenderIds }

\* ID("") : the identifier of the zero-valued Scroll{}.
EmptyID == << >>

AllIds == Ids \cup {EmptyID}

TexSuffix == <<".", "tex">>

\* A file of the knowledge directory that does not carry the .tex extension.
NonTexName == <<"n", ".", "txt">>

\* Config.KnowledgeDirectory + string(id) + ".tex"
TexName(id) == id \o TexSuffix

FileNames == { TexName(id) : id \in Ids } \cup {NonTexName}

\* The identifiers updateIndex can give an entry: strings.TrimSuffix leaves the
\* name of a file without the .tex extension as it is.
IndexIds == Ids \cup {NonTexName}

\* strings.HasSuffix
HasSuffix(s, suffix) ==
    /\ Len(s) >= Len(suffix)
    /\ SubSeq(s, Len(s) - Len(suffix) + 1, Len(s)) = suffix

\* strings.HasPrefix
HasPrefix(s, prefix) ==
    /\ Len(s) >= Len(prefix)
    /\ SubSeq(s, 1, Len(prefix)) = prefix

\* strings.TrimSuffix
TrimSuffix(s, suffix) ==
    IF HasSuffix(s, suffix) THEN SubSeq(s, 1, Len(s) - Len(suffix)) ELSE s

(***************************************************************************)
(* Errors.                                                                 *)
(***************************************************************************)
Nil == << >>

ErrNoSuchScroll == <<"No such scroll">>

\* errors.Wrap / errors.Wrapf of github.com/pkg/errors: nil stays nil.
Wrap(err, msg) == IF err = Nil THEN Nil ELSE <<msg>> \o err

ReadError == <<"read scroll: input/output error">>

WriteError == <<"write temp: input/output error">>

XelatexError == <<"exit status 1">>

ConvertError == <<"convert: exit status 1">>

TemplateNames == {"header", "type_header", "type_footer", "footer"}

\* The order in which scrollToLatex reads the templates.
TemplateOrder == <<"header", "type_header", "type_footer", "footer">>

TemplateMissing == <<"open template: no such file">>

(***************************************************************************)
(* State.                                                                  *)
(***************************************************************************)
VARIABLES
    store,        \* knowledge directory: file name -> modification time, 0 = no file
    index,        \* bleve index: id -> modification time of the indexed content, 0 = no entry
    indexExists,  \* whether AlexandriaDirectory/bleve can be opened
    templates,    \* the template files that can be read
    tmp,          \* files of the temp directory: <<id, extension>>
    cache,        \* ids whose cached PNG isUpToDate reports as up to date
    renderer,     \* the xelatexImagemagickRenderer value held by the caller
    pc,           \* per thread: position inside renderScroll
    cur,          \* per thread: the id being rendered
    work,         \* per thread: the work done by the stages of the current run
    raised,       \* per thread: the non-nil errors the stages assigned to x.error
    ret,          \* per thread: the value renderScroll returned
    mode,         \* what the main thread is running
    clock,        \* time.Now()
    faults,       \* how many failures of the environment have happened
    hits,         \* findScrolls: searchResults.Hits, the ids the index returned
    results,      \* findScrolls: the Results value, IDs and Total
    n,            \* findScrolls: what renderListOfScrolls has counted
    k,            \* findScrolls: how many of results.IDs have been rendered
    ferr,         \* findScrolls: the error it returned
    marker,       \* modification time of AlexandriaDirectory/index_updated, NoFile = no file
    upc,          \* updateIndex: its position
    isNewIndex,   \* updateIndex: whether openOrCreateIndex created the index
    timeOfLastIndexUpdate,  \* updateIndex: the marker as read at the start
    files,        \* updateIndex: the names ioutil.ReadDir returned
    pos,          \* updateIndex: how many of files the loop has been through
    batch,        \* updateIndex: the staged documents, id -> modification time, 0 = not staged
    uerr,         \* updateIndex: the error it returned
    logged,       \* updateIndex: the ids whose failure the loop has passed to logError
    committedAt,  \* the time the marker was set to by the last run whose batch was committed
    maxProcs,     \* Config.MaxProcs
    spc,          \* renderAllScrolls: its position
    sfiles,       \* renderAllScrolls: the names ioutil.ReadDir returned
    limitGoroutines,  \* renderAllScrolls: how many values the channel of slots holds
    ch,           \* renderAllScrolls: the values in the channel of results
    counter,      \* renderAllScrolls: the sum of the results received
    received,     \* renderAllScrolls: the i of the collecting loop
    wpc,          \* per goroutine of renderAllScrolls: its position
    queryString,  \* translatePlusMinusTildePrefixes: its argument
    terms,        \* translatePlusMinusTildePrefixes: strings.Split(queryString, " ")
    ti,           \* translatePlusMinusTildePrefixes: how many terms the loop has been through
    newQueryString,  \* translatePlusMinusTildePrefixes: the string it builds and returns
    qpc           \* translatePlusMinusTildePrefixes: its position

envVars == <<store, index, indexExists, templates, tmp, cache, clock, faults>>

pipeVars == <<renderer, pc, cur, work, raised, ret>>

findVars == <<hits, results, n, k, ferr>>

idxVars ==
    <<marker, upc, isNewIndex, timeOfLastIndexUpdate, files, pos, batch, uerr, logged,
      committedAt>>

schedVars == <<maxProcs, spc, sfiles, limitGoroutines, ch, counter, received, wpc>>

queryVars == <<queryString, terms, ti, newQueryString, qpc>>

\* What the operations of the main thread leave alone.
restFind == <<idxVars, schedVars, queryVars>>

\* What updateIndex leaves alone.
restIdx == <<pipeVars, mode, findVars, schedVars, queryVars>>

\* What renderAllScrolls leaves alone.
restSched == <<mode, findVars, idxVars, queryVars>>

\* What translatePlusMinusTildePrefixes leaves alone.
restQuery == <<envVars, pipeVars, mode, findVars, idxVars, schedVars>>

vars == <<envVars, pipeVars, mode, findVars, idxVars, schedVars, queryVars>>

\* The main thread; the goroutines of renderAllScrolls are 1, 2, ...
Main == 0

\* renderAllScrolls starts one goroutine per file: goroutine w has sfiles[w].
Workers == 1..(NumSchedIds + 1)

Threads == {Main} \cup Workers

(***************************************************************************)
(* Helpers of the render pipeline.                                         *)
(***************************************************************************)
\* Whether KnowledgeDirectory/<id>.tex exists.
SourceExists(id) == TexName(id) \in FileNames /\ store[TexName(id)] > 0

\* isUpToDate(id): the cached image of id exists and is not older than its source.
isUpToDate(id) == id \in cache

\* errTemplateReader.readTemplate: a no-op once e.err is set.
readTemplate(e, name) ==
    IF e.err # Nil
    THEN e
    ELSE [ doc |-> IF name \in templates THEN Append(e.doc, name) ELSE e.doc,
           err |-> Wrap(IF name \in templates THEN Nil ELSE TemplateMissing,
                        "read template " \o name) ]

\* The errTemplateReader of scrollToLatex after lines 88-92.
ReadTemplates ==
    LET e0 == [doc |-> << >>, err |-> Nil]
        e1 == readTemplate(e0, TemplateOrder[1])
        e2 == readTemplate(e1, TemplateOrder[2])
        e3 == [e2 EXCEPT !.doc = Append(e2.doc, "content")]
        e4 == readTemplate(e3, TemplateOrder[3])
    IN  readTemplate(e4, TemplateOrder[4])

\* Methods with the receiver (x *xelatexImagemagickRenderer): the renderer of
\* the caller is the x the method assigned to.
PointerReceiver(callers, x) == x

\* The methods of xelatexImagemagickRenderer have the receiver
\* (x xelatexImagemagickRenderer): x is a copy of the caller's renderer, and
\* what the method assigns to x.error is gone when it returns.
ValueReceiver(callers, x) == callers

\* What a stage leaves behind: the caller's renderer, and the record of the
\* non-nil error the stage assigned to its x.error.
StageReturns(t, xerr) ==
    /\ renderer' = ValueReceiver(renderer, [error |-> xerr])
    /\ raised' = [raised EXCEPT ![t] = IF xerr = Nil THEN @ ELSE Append(@, xerr)]

\* A step in which the environment fails, or does not: at most MaxFaults do.
Fault(failed) ==
    /\ failed => faults < MaxFaults
    /\ faults' = IF failed THEN faults + 1 ELSE faults

\* The name of the temp file <<id, ext>> is TempDirectory/<id>.<ext>.
TempName(f) == f[1] \o <<".", f[2]>>

\* filepath.Glob(Config.TempDirectory + string(id) + ".*")
Glob(id) == { f \in tmp : HasPrefix(TempName(f), id \o <<".">>) }

\* removeFromIndex that deletes every entry whose id starts with id.
removeFromIndexByPrefix(id, deleteOk) ==
    IF indexExists /\ deleteOk /\ id \in IndexIds
    THEN [other \in IndexIds |-> IF HasPrefix(other, id) THEN 0 ELSE index[other]]
    ELSE index

\* removeFromIndex(id): the index after the call, and whether it returned nil.
\* bleve refuses the empty identifier.
removeFromIndex(id, deleteOk) ==
    IF indexExists /\ deleteOk /\ id \in IndexIds
    THEN [index EXCEPT ![id] = 0]
    ELSE index

(***************************************************************************)
(* renderScroll, one action per statement.                                 *)
(***************************************************************************)
\* renderScroll without the isUpToDate check of render.go:144.
RenderScrollAlways(t, id) ==
    /\ pc[t] = "idle"
    /\ cur' = [cur EXCEPT ![t] = id]
    /\ work' = [work EXCEPT ![t] = {}]
    /\ raised' = [raised EXCEPT ![t] = << >>]
    /\ ret' = [ret EXCEPT ![t] = Nil]
    /\ pc' = [pc EXCEPT ![t] = "scrollToLatex"]
    /\ UNCHANGED <<envVars, renderer>>

\* render.go:144-146
RenderScrollEnter(t, id) ==
    /\ pc[t] = "idle"
    /\ cur' = [cur EXCEPT ![t] = id]
    /\ work' = [work EXCEPT ![t] = {}]
    /\ raised' = [raised EXCEPT ![t] = << >>]
    /\ ret' = [ret EXCEPT ![t] = Nil]
    /\ pc' = [pc EXCEPT ![t] = IF isUpToDate(id) THEN "done" ELSE "scrollToLatex"]
    /\ UNCHANGED <<envVars, renderer>>

\* render.go:70-100
scrollToLatex(t) ==
    /\ pc[t] = "scrollToLatex"
    /\ LET id == cur[t] IN
       \E fault \in {"none", "read", "write", "delete"} :
          LET e == ReadTemplates
              readOk == fault # "read"
              writeOk == fault # "write"
              deleteOk == fault # "delete"
              xerr == IF ~SourceExists(id) THEN ErrNoSuchScroll
                      ELSE IF ~readOk THEN ReadError
                      ELSE IF e.err # Nil THEN Wrap(e.err, "producing latex file")
                      ELSE Wrap(IF writeOk THEN Nil ELSE WriteError, "writing latex file")
          IN  /\ fault = "delete" => ~SourceExists(id)
              /\ fault = "read" => SourceExists(id)
              /\ fault = "write" => SourceExists(id) /\ e.err = Nil
              /\ Fault(fault # "none")
              /\ index' = IF ~SourceExists(id) THEN removeFromIndex(id, deleteOk) ELSE index
              /\ tmp' = IF xerr = Nil THEN tmp \cup {<<id, "tex">>} ELSE tmp
              /\ StageReturns(t, xerr)
    /\ work' = [work EXCEPT ![t] = @ \cup {"emit"}]
    /\ pc' = [pc EXCEPT ![t] = "latexToPdf"]
    /\ UNCHANGED <<store, indexExists, templates, cache, clock, cur, ret>>

\* render.go:102-111.  xelatex can only succeed on an emitted LaTeX file.
latexToPdf(t) ==
    /\ pc[t] = "latexToPdf"
    /\ LET id == cur[t] IN
       IF renderer.error # Nil
       THEN UNCHANGED <<tmp, renderer, raised, work, faults>>
       ELSE \E fails \in BOOLEAN :
              LET built == ~fails /\ <<id, "tex">> \in tmp
                  xerr == Wrap(IF built THEN Nil ELSE XelatexError, "XeLaTeX build")
              IN  /\ fails => <<id, "tex">> \in tmp
                  /\ Fault(fails)
                  /\ tmp' = IF built THEN tmp \cup {<<id, "pdf">>} ELSE tmp
                  /\ StageReturns(t, xerr)
                  /\ work' = [work EXCEPT ![t] = @ \cup {"xelatex"}]
    /\ pc' = [pc EXCEPT ![t] = "pdfToPng"]
    /\ UNCHANGED <<store, index, indexExists, templates, cache, clock, cur, ret>>

\* render.go:113-124.  convert can only succeed on a compiled PDF.
pdfToPng(t) ==
    /\ pc[t] = "pdfToPng"
    /\ LET id == cur[t] IN
       IF renderer.error # Nil
       THEN UNCHANGED <<cache, renderer, raised, work, faults>>
       ELSE \E fails \in BOOLEAN :
              LET converted == ~fails /\ <<id, "pdf">> \in tmp
                  xerr == IF converted THEN Nil ELSE ConvertError
              IN  /\ fails => <<id, "pdf">> \in tmp
                  /\ Fault(fails)
                  /\ cache' = IF converted THEN cache \cup {id} ELSE cache
                  /\ StageReturns(t, xerr)
                  /\ work' = [work EXCEPT ![t] = @ \cup {"convert"}]
    /\ pc' = [pc EXCEPT ![t] = "deleteTemporaryFiles"]
    /\ UNCHANGED <<store, index, indexExists, templates, tmp, clock, cur, ret>>

\* render.go:126-135.  A file os.Remove fails on stays; the failure is logged.
deleteTemporaryFiles(t) ==
    /\ pc[t] = "deleteTemporaryFiles"
    /\ \E kept \in SUBSET Glob(cur[t]) :
          /\ Fault(kept # {})
          /\ tmp' = (tmp \ Glob(cur[t])) \cup kept
    /\ work' = [work EXCEPT ![t] = @ \cup {"cleanup"}]
    /\ pc' = [pc EXCEPT ![t] = "return"]
    /\ UNCHANGED <<store, index, indexExists, templates, cache, clock,
                   renderer, cur, raised, ret>>

\* render.go:137-139
err == renderer.error

\* render.go:153
RenderScrollReturn(t) ==
    /\ pc[t] = "return"
    /\ ret' = [ret EXCEPT ![t] = Wrap(err, "rendering")]
    /\ pc' = [pc EXCEPT ![t] = "done"]
    /\ UNCHANGED <<envVars, renderer, cur, work, raised>>

\* The caller has taken the result of renderScroll.
Forget(t) ==
    /\ pc' = [pc EXCEPT ![t] = "idle"]
    /\ cur' = [cur EXCEPT ![t] = EmptyID]
    /\ work' = [work EXCEPT ![t] = {}]
    /\ raised' = [raised EXCEPT ![t] = << >>]
    /\ ret' = [ret EXCEPT ![t] = Nil]

(***************************************************************************)
(* The document store changes outside the program's control.               *)
(***************************************************************************)
\* A source file is created or modified: its cached image is stale.
WriteFile(f) ==
    /\ store' = [store EXCEPT ![f] = clock]
    /\ cache' = cache \ {TrimSuffix(f, TexSuffix)}
    /\ UNCHANGED <<index, indexExists, templates, tmp, clock, faults>>

WriteScroll(id) == WriteFile(TexName(id))

\* A file of the knowledge directory is deleted.
DeleteFile(f) ==
    /\ store[f] > 0
    /\ store' = [store EXCEPT ![f] = 0]
    /\ UNCHANGED <<index, indexExists, templates, tmp, cache, clock, faults>>

DeleteScroll(id) == DeleteFile(TexName(id))

\* The cached image of id is deleted.
DeleteImage(id) ==
    /\ id \in cache
    /\ cache' = cache \ {id}
    /\ UNCHANGED <<store, index, indexExists, templates, tmp, clock, faults>>

(***************************************************************************)
(* The render-one operation: renderScroll on the main thread.              *)
(***************************************************************************)
TemplateStates ==
    {TemplateNames} \cup { TemplateNames \ {name} : name \in TemplateNames }

InitEnv ==
    /\ store = [f \in FileNames |->
                  IF \E id \in RenderIds : f = TexName(id) THEN 1 ELSE 0]
    /\ index = [id \in IndexIds |-> IF id \in RenderIds THEN 1 ELSE 0]
    /\ indexExists = TRUE
    /\ templates \in TemplateStates
    /\ tmp = {}
    /\ cache = {}
    /\ clock = 1
    /\ faults = 0

InitPipe ==
    /\ renderer = [error |-> Nil]
    /\ pc = [t \in Threads |-> "idle"]
    /\ cur = [t \in Threads |-> EmptyID]
    /\ work = [t \in Threads |-> {}]
    /\ raised = [t \in Threads |-> << >>]
    /\ ret = [t \in Threads |-> Nil]

InitFind ==
    /\ hits = << >>
    /\ results = [IDs |-> << >>, Total |-> 0]
    /\ n = 0
    /\ k = 0
    /\ ferr = Nil

NoFile == -1

InitIdx ==
    /\ marker = 1
    /\ upc = "idle"
    /\ isNewIndex = FALSE
    /\ timeOfLastIndexUpdate = 0
    /\ files = << >>
    /\ pos = 0
    /\ batch = [id \in IndexIds |-> 0]
    /\ uerr = Nil
    /\ logged = {}
    /\ committedAt = 1

InitSched ==
    /\ maxProcs = 1
    /\ spc = "idle"
    /\ sfiles = << >>
    /\ limitGoroutines = 0
    /\ ch = << >>
    /\ counter = 0
    /\ received = 0
    /\ wpc = [w \in Workers |-> "none"]

InitQuery ==
    /\ queryString = << >>
    /\ terms = << >>
    /\ ti = 0
    /\ newQueryString = << >>
    /\ qpc = "idle"

Init ==
    InitEnv /\ InitPipe /\ InitFind /\ InitIdx /\ InitSched /\ InitQuery /\ mode = "idle"

RenderOne ==
    /\ mode = "idle"
    /\ \E id \in RenderIds : RenderScrollEnter(Main, id)
    /\ mode' = "renderOne"
    /\ UNCHANGED <<findVars, restFind>>

Stage1 == scrollToLatex(Main) /\ UNCHANGED <<mode, findVars, restFind>>

Stage2 == latexToPdf(Main) /\ UNCHANGED <<mode, findVars, restFind>>

Stage3 == pdfToPng(Main) /\ UNCHANGED <<mode, findVars, restFind>>

Stage4 == deleteTemporaryFiles(Main) /\ UNCHANGED <<mode, findVars, restFind>>

Return == RenderScrollReturn(Main) /\ UNCHANGED <<mode, findVars, restFind>>

RenderOneDone ==
    /\ mode = "renderOne"
    /\ pc[Main] = "done"
    /\ Forget(Main)
    /\ mode' = "idle"
    /\ UNCHANGED <<envVars, renderer, findVars, restFind>>

Write == (\E id \in RenderIds : WriteScroll(id)) /\ UNCHANGED <<pipeVars, mode, findVars, restFind>>

Delete == (\E id \in RenderIds : DeleteScroll(id)) /\ UNCHANGED <<pipeVars, mode, findVars, restFind>>

Expire == (\E id \in RenderIds : DeleteImage(id)) /\ UNCHANGED <<pipeVars, mode, findVars, restFind>>

Next ==
    \/ RenderOne \/ Stage1 \/ Stage2 \/ Stage3 \/ Stage4 \/ Return \/ RenderOneDone
    \/ Write \/ Delete \/ Expire

Spec == Init /\ [][Next]_vars

(***************************************************************************)
(* findScrolls (bleve.go:158-177) with searchBleve, loadMatchingScrolls    *)
(* and renderListOfScrolls.                                                *)
(***************************************************************************)
Min(a, b) == IF a < b THEN a ELSE b

\* The ids that have an entry in the index.
Indexed == { id \in IndexIds : index[id] > 0 }

\* The page of hits bleve returns for the matching entries S: at most
\* MaxResults of them, by descending score.  The score order of the model is
\* the order of IdPool.
Ranked(S) ==
    LET byScore == SelectSeq(SubSeq(IdPool, 1, NumIds), LAMBDA id : id \in S)
    IN  SubSeq(byScore, 1, Min(Len(byScore), MaxResults))

\* The capacity append gives a slice that cannot hold `needed` elements:
\* Go's runtime doubles the capacity of a small slice.
growslice(oldCap, needed) ==
    IF needed <= oldCap THEN oldCap
    ELSE IF needed > 2 * oldCap THEN needed
    ELSE 2 * oldCap

\* The capacity of a nil slice after m single appends (bleve.go:235, 243).
RECURSIVE CapAfterAppends(_)
CapAfterAppends(m) ==
    IF m = 0 THEN 0 ELSE growslice(CapAfterAppends(m - 1), m)

\* bleve.go:234-247: the hits whose source could be read and parsed, in order.
loadMatchingScrolls(h, unreadable) ==
    SelectSeq(h, LAMBDA id : SourceExists(id) /\ id \notin unreadable)

\* scrolls[:len] of a slice of capacity >= len: the elements of scrolls, then
\* the zero-valued Scroll{} of the rest of the backing array.
Reslice(scrolls, len) ==
    [i \in 1..len |-> IF i <= Len(scrolls) THEN scrolls[i] ELSE EmptyID]

SearchError == <<"search: index error">>

\* bleve.go:159-164: searchBleve, then var x and the start of renderListOfScrolls.
\* matched are the entries the query matches, h the page of hits bleve returns.
FindScrolls ==
    /\ mode = "idle"
    /\ \E outcome \in {"ok", "syntax error", "error"}, matched \in SUBSET Indexed :
       \E unreadable \in SUBSET matched :
          LET h == Ranked(matched)
              scrolls == loadMatchingScrolls(h, unreadable)
              \* bleve.go:180-184, 189-195
              opened == indexExists /\ outcome # "error"
              found == opened /\ outcome = "ok"
              \* bleve.go:199: scrolls[:len(searchResults.Hits)] panics beyond cap(scrolls)
              inRange == Len(h) <= CapAfterAppends(Len(scrolls))
          IN  /\ Fault(outcome # "ok" \/ unreadable # {})
              /\ outcome # "ok" => unreadable = {}
              /\ mode' = IF ~opened THEN "found"
                         ELSE IF found /\ ~inRange THEN "panic"
                         ELSE "find"
              /\ ferr' = IF opened THEN Nil ELSE SearchError
              /\ results' = IF found /\ inRange
                            THEN [IDs |-> Reslice(scrolls, Len(h)),
                                  Total |-> Cardinality(matched)]
                            ELSE [IDs |-> << >>, Total |-> 0]
              /\ hits' = IF found THEN h ELSE << >>
    /\ renderer' = [error |-> Nil]
    /\ n' = 0
    /\ k' = 0
    /\ UNCHANGED <<store, index, indexExists, templates, tmp, cache, clock,
                   pc, cur, work, raised, ret, restFind>>

\* render.go:161-163
FindRenderNext ==
    /\ mode = "find"
    /\ k < Len(results.IDs)
    /\ RenderScrollEnter(Main, results.IDs[k + 1])
    /\ UNCHANGED <<mode, findVars, restFind>>

\* render.go:164-172
FindRenderDone ==
    /\ mode = "find"
    /\ pc[Main] = "done"
    /\ n' = IF ret[Main] = Nil THEN n + 1 ELSE n
    /\ mode' = IF ret[Main] = Nil \/ ret[Main] = ErrNoSuchScroll THEN "find" ELSE "panic"
    /\ k' = k + 1
    /\ Forget(Main)
    /\ UNCHANGED <<envVars, renderer, hits, results, ferr, restFind>>

\* bleve.go:165-176: ids := make([]Scroll, n) is filled and dropped, and
\* results.Total = n.
FindReturn ==
    /\ mode = "find"
    /\ pc[Main] = "idle"
    /\ k = Len(results.IDs)
    /\ LET stillThere == { i \in 1..Len(results.IDs) : SourceExists(results.IDs[i]) } IN
       IF Cardinality(stillThere) > n
       THEN \* ids[i]: index out of range
            /\ mode' = "panic"
            /\ UNCHANGED results
       ELSE /\ mode' = "found"
            /\ results' = [results EXCEPT !.Total = n]
    /\ UNCHANGED <<envVars, pipeVars, hits, n, k, ferr, restFind>>

\* The caller has taken the results, or the process has died of the panic.
FindDone ==
    /\ mode \in {"found", "panic"}
    /\ mode' = "idle"
    /\ hits' = << >>
    /\ results' = [IDs |-> << >>, Total |-> 0]
    /\ n' = 0
    /\ k' = 0
    /\ ferr' = Nil
    /\ UNCHANGED <<envVars, pipeVars, restFind>>

InitEnvFind ==
    /\ store = [f \in FileNames |-> IF f = NonTexName THEN 0 ELSE 1]
    /\ index = [id \in IndexIds |-> IF id \in Ids THEN 1 ELSE 0]
    /\ indexExists = TRUE
    /\ templates = TemplateNames
    /\ tmp = {}
    /\ cache = {}
    /\ clock = 1
    /\ faults = 0

InitFindScrolls ==
    InitEnvFind /\ InitPipe /\ InitFind /\ InitIdx /\ InitSched /\ InitQuery /\ mode = "idle"

DeleteBetweenQueries ==
    /\ mode = "idle"
    /\ \E id \in Ids : DeleteScroll(id)
    /\ UNCHANGED <<pipeVars, mode, findVars, restFind>>

NextFind ==
    \/ FindScrolls \/ FindRenderNext \/ FindRenderDone \/ FindReturn \/ FindDone
    \/ Stage1 \/ Stage2 \/ Stage3 \/ Stage4 \/ Return
    \/ DeleteBetweenQueries

SpecFind == InitFindScrolls /\ [][NextFind]_vars

(***************************************************************************)
(* updateIndex (bleve.go:26-66) and removeFromIndex (bleve.go:148-155).    *)
(***************************************************************************)
\* The source files that are written and deleted while updateIndex runs.
IndexFiles == { TexName(IdPool[i]) : i \in 1..NumIndexIds }

\* ioutil.ReadDir(Config.KnowledgeDirectory): the files there are, by name.
\* The order of the names in the model is the order of IdPool.
ReadDir ==
    SelectSeq([i \in 1..NumIds |-> TexName(IdPool[i])] \o <<NonTexName>>,
              LAMBDA f : store[f] > 0)

\* isOlderThan with modTime <= indexUpdateTime at bleve.go:126.
isOlderThanOrAsOld(f, indexUpdateTime) ==
    IF store[f] = 0 THEN TRUE ELSE store[f] <= indexUpdateTime

\* bleve.go:120-127: a file getModTime fails on counts as older.
isOlderThan(f, indexUpdateTime) ==
    IF store[f] = 0 THEN TRUE ELSE store[f] < indexUpdateTime

OpenError == <<"cannot open or create index">>

ReadDirError == <<"open knowledge directory: input/output error">>

BatchError == <<"batch: index error">>

NoBatch == [id \in IndexIds |-> 0]

\* bleve.go:27-34: openOrCreateIndex, then getModTime of index_updated, which
\* leaves 0 when it fails.
UpdateIndexBegin ==
    /\ upc = "idle"
    /\ \E fails \in BOOLEAN :
          /\ Fault(fails)
          /\ upc' = IF fails THEN "returned" ELSE "touch"
          /\ uerr' = IF fails THEN Wrap(OpenError, "open or create index") ELSE Nil
          /\ isNewIndex' = (~fails /\ ~indexExists)
          /\ indexExists' = (indexExists \/ ~fails)
          /\ index' = IF ~fails /\ ~indexExists THEN NoBatch ELSE index
          /\ timeOfLastIndexUpdate' = IF fails \/ marker = NoFile THEN 0 ELSE marker
    /\ UNCHANGED <<store, templates, tmp, cache, clock, marker, files, pos, batch, logged,
                   committedAt, restIdx>>

\* bleve.go:41, 68-76: os.Chtimes sets the time of an existing file.
recordIndexUpdateStart ==
    /\ upc = "touch"
    /\ \E fails \in BOOLEAN :
          /\ fails => marker # NoFile
          /\ Fault(fails)
          /\ marker' = IF fails \/ marker = NoFile THEN marker ELSE clock
    /\ upc' = "readdir"
    /\ UNCHANGED <<store, index, indexExists, templates, tmp, cache, clock,
                   isNewIndex, timeOfLastIndexUpdate, files, pos, batch, uerr, logged,
                   committedAt, restIdx>>

\* bleve.go:43-48
ReadKnowledgeDirectory ==
    /\ upc = "readdir"
    /\ \E fails \in BOOLEAN :
          /\ Fault(fails)
          /\ upc' = IF fails THEN "returned" ELSE "scan"
          /\ uerr' = IF fails THEN Wrap(ReadDirError, "read knowledge directory") ELSE Nil
          /\ files' = IF fails THEN << >> ELSE ReadDir
    /\ pos' = 0
    /\ batch' = NoBatch
    /\ logged' = {}
    /\ UNCHANGED <<store, index, indexExists, templates, tmp, cache, clock,
                   marker, isNewIndex, timeOfLastIndexUpdate, committedAt, restIdx>>

\* The loop of updateIndex with `return err` in place of the `continue` at
\* bleve.go:58 and after the logError at bleve.go:62.
ScanFileOrReturn ==
    /\ upc = "scan"
    /\ pos < Len(files)
    /\ LET f == files[pos + 1]
           id == TrimSuffix(f, TexSuffix)
           skipped == ~isNewIndex /\ isOlderThan(f, timeOfLastIndexUpdate)
       IN  \E fault \in {"none", "read", "stage"} :
              LET loaded == store[f] > 0 /\ fault # "read"
                  staged == ~skipped /\ loaded /\ fault # "stage"
              IN  /\ fault # "none" => ~skipped /\ store[f] > 0
                  /\ Fault(fault # "none")
                  /\ batch' = IF staged THEN [batch EXCEPT ![id] = store[f]] ELSE batch
                  /\ logged' = logged
                  /\ upc' = IF ~skipped /\ ~staged THEN "returned" ELSE upc
                  /\ uerr' = IF ~skipped /\ ~staged THEN BatchError ELSE uerr
    /\ pos' = pos + 1
    /\ UNCHANGED <<store, index, indexExists, templates, tmp, cache, clock,
                   marker, isNewIndex, timeOfLastIndexUpdate, files, committedAt, restIdx>>

\* bleve.go:49-64, one iteration: the file is skipped as older, or read,
\* parsed and staged; a failure to read or to stage it is logged.
ScanFile ==
    /\ upc = "scan"
    /\ pos < Len(files)
    /\ LET f == files[pos + 1]
           id == TrimSuffix(f, TexSuffix)
           skipped == ~isNewIndex /\ isOlderThan(f, timeOfLastIndexUpdate)
       IN  \E fault \in {"none", "read", "stage"} :
              LET loaded == store[f] > 0 /\ fault # "read"
                  staged == ~skipped /\ loaded /\ fault # "stage"
              IN  /\ fault # "none" => ~skipped /\ store[f] > 0
                  /\ Fault(fault # "none")
                  /\ batch' = IF staged THEN [batch EXCEPT ![id] = store[f]] ELSE batch
                  /\ logged' = IF ~skipped /\ ~staged THEN logged \cup {id} ELSE logged
    /\ pos' = pos + 1
    /\ UNCHANGED <<store, index, indexExists, templates, tmp, cache, clock,
                   marker, upc, isNewIndex, timeOfLastIndexUpdate, files, uerr,
                   committedAt, restIdx>>

\* updateIndex with the marker also set after the commit, at the end of the run.
CommitBatchThenTouch ==
    /\ upc = "scan"
    /\ pos = Len(files)
    /\ \E fails \in BOOLEAN :
          /\ Fault(fails)
          /\ index' = IF fails THEN index
                      ELSE [id \in IndexIds |-> IF batch[id] > 0 THEN batch[id] ELSE index[id]]
          /\ uerr' = IF fails THEN BatchError ELSE Nil
          /\ committedAt' = IF fails THEN committedAt
                            ELSE IF marker = NoFile THEN 0 ELSE marker
    /\ upc' = "returned"
    /\ marker' = IF marker = NoFile THEN marker ELSE clock
    /\ UNCHANGED <<store, indexExists, templates, tmp, cache, clock,
                   isNewIndex, timeOfLastIndexUpdate, files, pos, batch, logged, restIdx>>

\* bleve.go:65: index.Batch(batch) writes all the staged documents, or none.
CommitBatch ==
    /\ upc = "scan"
    /\ pos = Len(files)
    /\ \E fails \in BOOLEAN :
          /\ Fault(fails)
          /\ index' = IF fails THEN index
                      ELSE [id \in IndexIds |-> IF batch[id] > 0 THEN batch[id] ELSE index[id]]
          /\ uerr' = IF fails THEN BatchError ELSE Nil
          /\ committedAt' = IF fails THEN committedAt
                            ELSE IF marker = NoFile THEN 0 ELSE marker
    /\ upc' = "returned"
    /\ UNCHANGED <<store, indexExists, templates, tmp, cache, clock,
                   marker, isNewIndex, timeOfLastIndexUpdate, files, pos, batch, logged,
                   restIdx>>

\* The caller has taken the result of updateIndex.
UpdateIndexDone ==
    /\ upc = "returned"
    /\ upc' = "idle"
    /\ isNewIndex' = FALSE
    /\ timeOfLastIndexUpdate' = 0
    /\ files' = << >>
    /\ pos' = 0
    /\ batch' = NoBatch
    /\ uerr' = Nil
    /\ logged' = {}
    /\ UNCHANGED <<envVars, marker, committedAt, restIdx>>

\* The remove-from-index operation.
RemoveFromIndex ==
    /\ upc = "idle"
    /\ \E id \in IndexIds, deleteOk \in BOOLEAN :
          /\ index[id] > 0
          /\ Fault(~deleteOk)
          /\ index' = removeFromIndex(id, deleteOk)
    /\ UNCHANGED <<store, indexExists, templates, tmp, cache, clock, idxVars, restIdx>>

Tick ==
    /\ clock < MaxTime
    /\ clock' = clock + 1
    /\ UNCHANGED <<store, index, indexExists, templates, tmp, cache, faults,
                   idxVars, restIdx>>

WriteSource ==
    /\ \E f \in IndexFiles : WriteFile(f)
    /\ UNCHANGED <<idxVars, restIdx>>

DeleteSource ==
    /\ \E f \in IndexFiles :
          /\ store[f] > 0
          /\ store' = [store EXCEPT ![f] = 0]
    /\ Fault(TRUE)
    /\ UNCHANGED <<index, indexExists, templates, tmp, cache, clock>>
    /\ UNCHANGED <<idxVars, restIdx>>

InitEnvIndex ==
    /\ store = [f \in FileNames |-> 0]
    /\ index = NoBatch
    /\ indexExists = FALSE
    /\ templates = TemplateNames
    /\ tmp = {}
    /\ cache = {}
    /\ clock = 1
    /\ faults = 0

InitIndex ==
    /\ InitEnvIndex /\ InitPipe /\ InitFind /\ InitSched /\ InitQuery /\ mode = "idle"
    /\ marker \in {NoFile, 1}
    /\ upc = "idle"
    /\ isNewIndex = FALSE
    /\ timeOfLastIndexUpdate = 0
    /\ files = << >>
    /\ pos = 0
    /\ batch = NoBatch
    /\ uerr = Nil
    /\ logged = {}
    /\ committedAt = IF marker = NoFile THEN 0 ELSE marker

NextIndex ==
    \/ UpdateIndexBegin \/ recordIndexUpdateStart \/ ReadKnowledgeDirectory
    \/ ScanFile \/ CommitBatch \/ UpdateIndexDone
    \/ RemoveFromIndex
    \/ Tick \/ WriteSource \/ DeleteSource

SpecIndex == InitIndex /\ [][NextIndex]_vars

(***************************************************************************)
(* The operations that write the index, one at a time: updateIndex,        *)
(* removeFromIndex and renderScroll, whose first stage removes the entry   *)
(* of a document without a source file.                                    *)
(***************************************************************************)
UpdateIndex == mode = "idle" /\ UpdateIndexBegin

RemoveEntry == mode = "idle" /\ RemoveFromIndex

RenderIndexed ==
    /\ upc = "idle"
    /\ mode = "idle"
    /\ \E id \in Indexed : ~SourceExists(id) /\ RenderScrollEnter(Main, id)
    /\ mode' = "renderOne"
    /\ UNCHANGED <<findVars, restFind>>

\* The library changes while updateIndex runs and between the renderings;
\* changes during a rendering are those of Spec and SpecSched.
BetweenRenderings == mode = "idle"

NextLifecycle ==
    \/ UpdateIndex \/ recordIndexUpdateStart \/ ReadKnowledgeDirectory
    \/ ScanFile \/ CommitBatch \/ UpdateIndexDone
    \/ RemoveEntry
    \/ RenderIndexed \/ Stage1 \/ Stage2 \/ Stage3 \/ Stage4 \/ Return \/ RenderOneDone
    \/ BetweenRenderings /\ (Tick \/ WriteSource \/ DeleteSource)

SpecLifecycle == InitIndex /\ [][NextLifecycle]_vars

(***************************************************************************)
(* renderAllScrolls (render.go:181-215).                                   *)
(***************************************************************************)
\* render.go:182-191: ReadDir, the channel of slots filled with MaxProcs
\* values, the channel of results, and one goroutine per file.
RenderAllScrolls ==
    /\ spc = "idle"
    /\ sfiles' = ReadDir
    /\ limitGoroutines' = maxProcs
    /\ ch' = << >>
    /\ counter' = 0
    /\ received' = 0
    /\ wpc' = [w \in Workers |-> IF w <= Len(ReadDir) THEN "start" ELSE "none"]
    /\ spc' = "collect"
    /\ UNCHANGED <<envVars, pipeVars, maxProcs, restSched>>

\* A goroutine that does not wait for a slot at render.go:194.
WorkerRuns(w) ==
    /\ wpc[w] = "start"
    /\ limitGoroutines' = IF limitGoroutines > 0 THEN limitGoroutines - 1 ELSE 0
    /\ wpc' = [wpc EXCEPT ![w] = "acquired"]
    /\ UNCHANGED <<envVars, pipeVars, maxProcs, spc, sfiles, ch, counter, received, restSched>>

\* render.go:194: <-limitGoroutines
WorkerAcquire(w) ==
    /\ wpc[w] = "start"
    /\ limitGoroutines > 0
    /\ limitGoroutines' = limitGoroutines - 1
    /\ wpc' = [wpc EXCEPT ![w] = "acquired"]
    /\ UNCHANGED <<envVars, pipeVars, maxProcs, spc, sfiles, ch, counter, received, restSched>>

\* render.go:195-198: a file without the .tex extension
WorkerSkip(w) ==
    /\ wpc[w] = "acquired"
    /\ ~HasSuffix(sfiles[w], TexSuffix)
    /\ ch' = Append(ch, 0)
    /\ wpc' = [wpc EXCEPT ![w] = "exit"]
    /\ UNCHANGED <<envVars, pipeVars, maxProcs, spc, sfiles, limitGoroutines,
                   counter, received, restSched>>

\* render.go:199-200: the call of renderScroll
WorkerRender(w) ==
    /\ wpc[w] = "acquired"
    /\ HasSuffix(sfiles[w], TexSuffix)
    /\ RenderScrollEnter(w, TrimSuffix(sfiles[w], TexSuffix))
    /\ wpc' = [wpc EXCEPT ![w] = "render"]
    /\ UNCHANGED <<maxProcs, spc, sfiles, limitGoroutines, ch, counter, received, restSched>>

\* render.go:200-203: renderScroll has returned; its error is logged.
WorkerSend(w) ==
    /\ wpc[w] = "render"
    /\ pc[w] = "done"
    /\ ch' = Append(ch, 1)
    /\ wpc' = [wpc EXCEPT ![w] = "exit"]
    /\ UNCHANGED <<envVars, pipeVars, maxProcs, spc, sfiles, limitGoroutines,
                   counter, received, restSched>>

\* render.go:208: counter += <-ch
Receive ==
    /\ spc = "collect"
    /\ received < Len(sfiles)
    /\ ch # << >>
    /\ counter' = counter + Head(ch)
    /\ ch' = Tail(ch)
    /\ spc' = "release"
    /\ UNCHANGED <<envVars, pipeVars, maxProcs, sfiles, limitGoroutines, received, wpc,
                   restSched>>

\* The collecting loop without the limitGoroutines <- true of render.go:209.
ReleaseNoSlot ==
    /\ spc = "release"
    /\ received' = received + 1
    /\ spc' = "collect"
    /\ UNCHANGED <<envVars, pipeVars, maxProcs, sfiles, limitGoroutines, ch, counter, wpc,
                   restSched>>

\* render.go:209: limitGoroutines <- true, which waits while the channel is full.
Release ==
    /\ spc = "release"
    /\ limitGoroutines < maxProcs
    /\ limitGoroutines' = limitGoroutines + 1
    /\ received' = received + 1
    /\ spc' = "collect"
    /\ UNCHANGED <<envVars, pipeVars, maxProcs, sfiles, ch, counter, wpc, restSched>>

\* render.go:214
RenderAllReturn ==
    /\ spc = "collect"
    /\ received = Len(sfiles)
    /\ spc' = "returned"
    /\ UNCHANGED <<envVars, pipeVars, maxProcs, sfiles, limitGoroutines, ch, counter,
                   received, wpc, restSched>>

\* The caller has taken the result of renderAllScrolls; the record of what the
\* goroutines did goes with it.
RenderAllDone ==
    /\ spc = "returned"
    /\ spc' = "idle"
    /\ sfiles' = << >>
    /\ limitGoroutines' = 0
    /\ ch' = << >>
    /\ counter' = 0
    /\ received' = 0
    /\ wpc' = [w \in Workers |-> "none"]
    /\ pc' = [t \in Threads |-> "idle"]
    /\ cur' = [t \in Threads |-> EmptyID]
    /\ work' = [t \in Threads |-> {}]
    /\ raised' = [t \in Threads |-> << >>]
    /\ ret' = [t \in Threads |-> Nil]
    /\ UNCHANGED <<envVars, renderer, maxProcs, restSched>>

Acquire == \E w \in Workers : WorkerAcquire(w)

Skip == \E w \in Workers : WorkerSkip(w)

Render == \E w \in Workers : WorkerRender(w)

Send == \E w \in Workers : WorkerSend(w)

WorkerStage1 == (\E w \in Workers : scrollToLatex(w)) /\ UNCHANGED <<schedVars, restSched>>

WorkerStage2 == (\E w \in Workers : latexToPdf(w)) /\ UNCHANGED <<schedVars, restSched>>

WorkerStage3 == (\E w \in Workers : pdfToPng(w)) /\ UNCHANGED <<schedVars, restSched>>

WorkerStage4 ==
    (\E w \in Workers : deleteTemporaryFiles(w)) /\ UNCHANGED <<schedVars, restSched>>

WorkerReturn ==
    (\E w \in Workers : RenderScrollReturn(w)) /\ UNCHANGED <<schedVars, restSched>>

SchedFiles == { TexName(IdPool[i]) : i \in 1..NumSchedIds } \cup {NonTexName}

\* A source file is deleted while the library is rendered: one of the at most
\* MaxFaults events of the environment.
DeleteWhileRendering ==
    /\ \E f \in SchedFiles :
          /\ store[f] > 0
          /\ store' = [store EXCEPT ![f] = 0]
    /\ Fault(TRUE)
    /\ UNCHANGED <<index, indexExists, templates, tmp, cache, clock>>
    /\ UNCHANGED <<pipeVars, schedVars, restSched>>

InitEnvSched ==
    /\ store = [f \in FileNames |-> IF f \in SchedFiles THEN 1 ELSE 0]
    /\ index = [id \in IndexIds |-> IF TexName(id) \in SchedFiles THEN 1 ELSE 0]
    /\ indexExists = TRUE
    /\ templates = TemplateNames
    /\ tmp = {}
    /\ cache = {}
    /\ clock = 1
    /\ faults = 0

InitRenderAll ==
    /\ InitEnvSched /\ InitPipe /\ InitFind /\ InitIdx /\ InitQuery /\ mode = "idle"
    /\ maxProcs \in 1..MaxMaxProcs
    /\ spc = "idle"
    /\ sfiles = << >>
    /\ limitGoroutines = 0
    /\ ch = << >>
    /\ counter = 0
    /\ received = 0
    /\ wpc = [w \in Workers |-> "none"]

NextSched ==
    \/ RenderAllScrolls \/ Acquire \/ Skip \/ Render \/ Send
    \/ WorkerStage1 \/ WorkerStage2 \/ WorkerStage3 \/ WorkerStage4 \/ WorkerReturn
    \/ Receive \/ Release \/ RenderAllReturn \/ RenderAllDone
    \/ DeleteWhileRendering

SpecSched == InitRenderAll /\ [][NextSched]_vars

\* The steps of one call of renderAllScrolls after its goroutines were started.
RunStep ==
    \/ Acquire \/ Skip \/ Render \/ Send
    \/ WorkerStage1 \/ WorkerStage2 \/ WorkerStage3 \/ WorkerStage4 \/ WorkerReturn
    \/ Receive \/ Release \/ RenderAllReturn

NextRun == RenderAllScrolls \/ RunStep

\* The Go scheduler does not stop while a goroutine can take a step, and every
\* stage of renderScroll terminates.  This is less than the fairness to each
\* goroutine that the scheduler gives.
FairSched == WF_vars(RunStep)

\* The knowledge directory holds any number of the scrolls, none included,
\* and possibly a file of another kind when renderAllScrolls is called.
InitRun ==
    /\ \E m \in 0..NumSchedIds, other \in SUBSET {NonTexName} :
          store = [f \in FileNames |->
                      IF f \in { TexName(IdPool[i]) : i \in 1..m } \cup other THEN 1 ELSE 0]
    /\ index = [id \in IndexIds |-> IF TexName(id) \in SchedFiles THEN 1 ELSE 0]
    /\ indexExists = TRUE
    /\ templates = TemplateNames
    /\ tmp = {}
    /\ cache = {}
    /\ clock = 1
    /\ faults = 0
    /\ InitPipe /\ InitFind /\ InitIdx /\ InitQuery /\ mode = "idle"
    /\ maxProcs \in 1..MaxMaxProcs
    /\ spc = "idle"
    /\ sfiles = << >>
    /\ limitGoroutines = 0
    /\ ch = << >>
    /\ counter = 0
    /\ received = 0
    /\ wpc = [w \in Workers |-> "none"]

\* One call of renderAllScrolls under fair scheduling.
SpecSchedFair == InitRun /\ [][NextRun]_vars /\ FairSched

(***************************************************************************)
(* translatePlusMinusTildePrefixes (bleve.go:211-225).  A string is the    *)
(* sequence of its characters.                                             *)
(***************************************************************************)
Space == " "

Tab == "\t"

\* The characters strings.TrimSpace removes, as far as queries hold them.
WhiteSpace == {Space, Tab}

\* strings.Split(s, " "): the parts of s between the spaces; one empty part for
\* the empty string.
RECURSIVE Split(_)
Split(str) ==
    IF \A i \in 1..Len(str) : str[i] # Space
    THEN <<str>>
    ELSE LET i == CHOOSE i \in 1..Len(str) :
                      str[i] = Space /\ \A j \in 1..(i - 1) : str[j] # Space
         IN  <<SubSeq(str, 1, i - 1)>> \o Split(SubSeq(str, i + 1, Len(str)))

\* strings.TrimSpace
RECURSIVE TrimSpace(_)
TrimSpace(str) ==
    IF str = << >> THEN str
    ELSE IF Head(str) \in WhiteSpace THEN TrimSpace(Tail(str))
    ELSE IF str[Len(str)] \in WhiteSpace THEN TrimSpace(SubSeq(str, 1, Len(str) - 1))
    ELSE str

\* bleve.go:215-222 without the case of '-': only '+' passes through.
appendTermPlusOnly(built, word) ==
    IF word[1] = "+" THEN built \o <<Space>> \o word
    ELSE IF word[1] = "~" THEN built \o <<Space>> \o Tail(word)
    ELSE built \o <<Space, "+">> \o word

\* bleve.go:215-222: what the loop appends for the non-empty word.
appendTerm(built, word) ==
    IF word[1] = "-" \/ word[1] = "+" THEN built \o <<Space>> \o word
    ELSE IF word[1] = "~" THEN built \o <<Space>> \o Tail(word)
    ELSE built \o <<Space, "+">> \o word

\* bleve.go:212-213
TranslateCall ==
    /\ qpc = "call"
    /\ newQueryString' = << >>
    /\ terms' = Split(queryString)
    /\ ti' = 0
    /\ qpc' = "loop"
    /\ UNCHANGED <<queryString, restQuery>>

\* bleve.go:214-222, one iteration: word[0] of an empty word is out of range.
TranslateTerm ==
    /\ qpc = "loop"
    /\ ti < Len(terms)
    /\ LET word == TrimSpace(terms[ti + 1]) IN
       IF Len(word) = 0
       THEN qpc' = "panic" /\ UNCHANGED newQueryString
       ELSE qpc' = "loop" /\ newQueryString' = appendTerm(newQueryString, word)
    /\ ti' = ti + 1
    /\ UNCHANGED <<queryString, terms, restQuery>>

\* bleve.go:224: newQueryString[1:]
TranslateReturn ==
    /\ qpc = "loop"
    /\ ti = Len(terms)
    /\ IF Len(newQueryString) = 0
       THEN qpc' = "panic" /\ UNCHANGED newQueryString
       ELSE qpc' = "returned" /\ newQueryString' = Tail(newQueryString)
    /\ UNCHANGED <<queryString, terms, ti, restQuery>>

\* The terms of the queries of the model.
Terms ==
    { << >>, <<"a">>, <<"b">>, <<"+">>, <<"-">>, <<"~">>,
      <<"+", "a">>, <<"-", "b">>, <<"~", "c">>, <<"a", "-">>, <<"~", "+">>,
      <<Tab>>, <<Tab, "a">>, <<"-", Tab>> }

\* strings.Join(ts, " ")
RECURSIVE Join(_)
Join(ts) ==
    IF Len(ts) = 0 THEN << >>
    ELSE IF Len(ts) = 1 THEN ts[1]
    ELSE ts[1] \o <<Space>> \o Join(Tail(ts))

\* Every string of spaces and of the characters of Terms splits into terms.
Queries ==
    { Join(ts) : ts \in UNION { [1..m -> Terms] : m \in 1..MaxTerms } }

InitTranslate ==
    /\ InitEnv /\ InitPipe /\ InitFind /\ InitIdx /\ InitSched /\ mode = "idle"
    /\ queryString \in Queries
    /\ terms = << >>
    /\ ti = 0
    /\ newQueryString = << >>
    /\ qpc = "call"

NextQuery == TranslateCall \/ TranslateTerm \/ TranslateReturn

SpecQuery == InitTranslate /\ [][NextQuery]_vars

(***************************************************************************)
(* The render pipeline: claims C1-C4.                                      *)
(***************************************************************************)
\* Whether e is an error scrollToLatex assigns (render.go:80, 83, 95, 99).
FromStage1(e) ==
    \/ e \in {ErrNoSuchScroll, ReadError}
    \/ e[1] \in {"producing latex file", "writing latex file"}

\* Whether stage 1 of the current run of thread t has failed.
Stage1Failed(t) == raised[t] # << >> /\ FromStage1(raised[t][1])

\* C1: once scrollToLatex has failed, the run invokes neither xelatex nor
\* convert, and deleteTemporaryFiles has run by the time renderScroll returns;
\* in general no stage works after an earlier stage of the run set the error,
\* so at most one stage of a run fails.
C1_StageShortCircuit ==
    \A t \in Threads :
        /\ Stage1Failed(t) =>
              /\ "xelatex" \notin work[t]
              /\ "convert" \notin work[t]
              /\ pc[t] \in {"return", "done"} => "cleanup" \in work[t]
        /\ Len(raised[t]) <= 1

\* C2: renderScroll on an id that is not up to date and has no source file
\* returns ErrNoSuchScroll, as its callers compare it (err == ErrNoSuchScroll),
\* and the index then holds no entry for the id.
C2_MissingSource ==
    \A t \in Threads :
        (pc[t] = "done" /\ raised[t] # << >> /\ raised[t][1] = ErrNoSuchScroll) =>
            /\ ret[t] = ErrNoSuchScroll
            /\ cur[t] \in IndexIds => index[cur[t]] = 0

\* C3: a run that went through the stages returns nil if no stage failed, and
\* otherwise the (wrapped) error of the earliest stage that failed.
C3_ReturnValue ==
    \A t \in Threads :
        (pc[t] = "done" /\ "emit" \in work[t]) =>
            IF raised[t] = << >>
            THEN ret[t] = Nil
            ELSE ret[t] = Wrap(raised[t][1], "rendering")

\* C4: renderScroll(id) with isUpToDate(id) goes straight to its return: it
\* returns nil, no stage has worked, and the document store, the index, the
\* temp directory and the cache are as they were.
C4_Idempotence ==
    [][\A t \in Threads :
         (pc[t] = "idle" /\ pc'[t] # "idle" /\ isUpToDate(cur'[t])) =>
             /\ pc'[t] = "done"
             /\ ret'[t] = Nil
             /\ work'[t] = {}
             /\ UNCHANGED <<envVars, renderer>>]_vars

\* A second renderScroll of an id whose image an earlier run has written has
\* returned without any stage work.
C4_SecondRunSkipped ==
    /\ pc[Main] = "done"
    /\ work[Main] = {}
    /\ isUpToDate(cur[Main])
    /\ ret[Main] = Nil

(***************************************************************************)
(* findScrolls: claims C5 and C6.                                          *)
(***************************************************************************)
\* C5: every element of the list findScrolls returns is a document whose
\* source file exists: no deleted document and no empty Scroll{} in its place.
C5_FreshnessGated ==
    mode = "found" =>
        \A i \in 1..Len(results.IDs) : SourceExists(results.IDs[i])

\* C6: the Total findScrolls returns is the number of hits whose source file
\* exists.
C6_ReportedTotal ==
    (mode = "found" /\ ferr = Nil) =>
        results.Total = Cardinality({ i \in 1..Len(hits) : SourceExists(hits[i]) })

(***************************************************************************)
(* updateIndex: claim C7.                                                  *)
(***************************************************************************)
\* One iteration of the loop of updateIndex.
ScanStep == upc = "scan" /\ pos' = pos + 1

\* The file and the id of the iteration.
ScannedFile == files[pos + 1]

ScannedId == TrimSuffix(ScannedFile, TexSuffix)

\* The iteration meets no failure of the environment.
NoFailure == faults' = faults

Rendering == { w \in Workers : wpc[w] = "render" }

\* C8: at most MaxProcs goroutines are inside renderScroll.
C8_BoundedConcurrency == Cardinality(Rendering) <= maxProcs

\* MaxProcs goroutines are inside renderScroll while another one waits for a
\* slot.
C8_AllSlotsTaken ==
    /\ Cardinality(Rendering) = maxProcs
    /\ \E w \in Workers : wpc[w] = "start"

(***************************************************************************)
(* translatePlusMinusTildePrefixes: claims C9 and C10.                     *)
(***************************************************************************)
\* What the claim has a term become.
Emitted(term) ==
    IF term # << >> /\ term[1] \in {"+", "-"} THEN term
    ELSE IF term # << >> /\ term[1] = "~" THEN Tail(term)
    ELSE <<"+">> \o term

C10_NeverCrashes == qpc # "panic"

(***************************************************************************)
(* renderAllScrolls as a batch: claims C11 and C12.                        *)
(***************************************************************************)
\* The goroutines of the pass that had a document to render.
Documents == { w \in 1..Len(sfiles) : HasSuffix(sfiles[w], TexSuffix) }

\* The error the pipeline of goroutine w met: the first one a stage raised.
Reported(w) == IF raised[w] = << >> THEN Nil ELSE raised[w][1]

\* C11: a batch in which the pipeline of some identifier met an error other
\* than ErrNoSuchScroll does not run to a normal return (and one that only met
\* ErrNoSuchScroll does).
C11_ErrorClassification ==
    spc = "returned" =>
        \A w \in Documents : Reported(w) \in {Nil, ErrNoSuchScroll}

\* C12: the integer renderAllScrolls returns is the number of documents whose
\* pipeline completed without an error; files without the .tex extension,
\* missing documents and failed renders are not counted.
C12_SchedulerResult ==
    spc = "returned" =>
        counter = Cardinality({ w \in Documents : Reported(w) = Nil })

(***************************************************************************)
(* updateIndex and the freshness marker: claim C13.                        *)
(***************************************************************************)
\* C13: a run of updateIndex reads the marker first (and leaves it as it is in
\* that step), sets it only in the step after that, to the current time, and
\* enumerates the store only after that step; so on an existing index a
\* document whose modification time is not before the time the run read, the
\* time the run before set, is staged when its iteration meets no failure:
\* it is not skipped as older.
C13_MarkerOrdering ==
    [][/\ (upc = "idle" /\ upc' = "touch") =>
            /\ marker' = marker
            /\ timeOfLastIndexUpdate' = IF marker = NoFile THEN 0 ELSE marker
       /\ marker' # marker =>
            /\ upc = "touch" /\ upc' = "readdir"
            /\ marker' = clock
            /\ files' = files
       /\ files' # files /\ files' # << >> => upc = "readdir" /\ upc' = "scan"
       /\ (upc # "idle" /\ upc' # "idle") => timeOfLastIndexUpdate' = timeOfLastIndexUpdate
       /\ (/\ ScanStep /\ NoFailure /\ ~isNewIndex
           /\ store[ScannedFile] > 0
           /\ store[ScannedFile] >= timeOfLastIndexUpdate)
             => batch'[ScannedId] = store[ScannedFile]
      ]_vars

\* A run on an existing index has staged a document that was modified at the
\* very time the run before set the marker.
C13_ModifiedAtMarkerTime ==
    /\ upc = "scan"
    /\ ~isNewIndex
    /\ timeOfLastIndexUpdate > 0
    /\ \E id \in IndexIds :
          /\ batch[id] = timeOfLastIndexUpdate
          /\ index[id] = 0

(***************************************************************************)
(* updateIndex and a document that cannot be read or staged: claim C14.    *)
(***************************************************************************)
\* C14: an iteration of updateIndex in which reading or staging the document
\* fails stages nothing, changes no entry and leaves the run in its loop; an
\* iteration without a failure stages its eligible document also after
\* another document has failed; the index changes only in the one step that
\* commits the batch, after the last file, and that step gives the documents
\* that failed no entry and no new content.
C14_BatchFaultTolerance ==
    [][/\ (ScanStep /\ logged' # logged) =>
            /\ upc' = "scan"
            /\ batch' = batch
            /\ index' = index
            /\ uerr' = Nil
       /\ (/\ ScanStep /\ NoFailure /\ logged # {}
           /\ store[ScannedFile] > 0
           /\ isNewIndex \/ store[ScannedFile] >= timeOfLastIndexUpdate)
             => batch'[ScannedId] = store[ScannedFile]
       /\ (upc \notin {"idle", "returned"} /\ index' # index) =>
            /\ upc = "scan" /\ pos = Len(files)
            /\ upc' = "returned"
       /\ (upc = "scan" /\ upc' = "returned") =>
            /\ pos = Len(files)
            /\ \A id \in logged : index'[id] = index[id]
      ]_vars

\* A run has committed a document that it staged after it had failed to read
\* or stage an earlier one, which has no entry.
C14_CommittedAfterFailure ==
    /\ upc = "returned"
    /\ uerr = Nil
    /\ \E i, j \in 1..Len(files) :
          /\ i < j
          /\ TrimSuffix(files[i], TexSuffix) \in logged
          /\ index[TrimSuffix(files[i], TexSuffix)] = 0
          /\ batch[TrimSuffix(files[j], TexSuffix)] > 0
          /\ index[TrimSuffix(files[j], TexSuffix)] = batch[TrimSuffix(files[j], TexSuffix)]

(***************************************************************************)
(* The life of an index entry: claim C15.                                  *)
(***************************************************************************)
\* removeFromIndex(id) is running: the operation itself, or the first stage of
\* renderScroll(id) on a document without a source file.
Removing(id) ==
    \/ upc = "idle" /\ mode = "idle"
    \/ /\ mode = "renderOne" /\ pc[Main] = "scrollToLatex"
       /\ cur[Main] = id /\ ~SourceExists(id)

\* C15: an entry leaves the index only in a step of removeFromIndex(id), which
\* takes the entry of id and no other; no step of updateIndex takes an entry
\* away, so the entry of a document whose source file was deleted stays until
\* then.
C15_EntryLifecycle ==
    [][\A id \in IndexIds :
          (index[id] > 0 /\ index'[id] = 0) =>
              /\ Removing(id)
              /\ index' = [index EXCEPT ![id] = 0]
      ]_vars

\* updateIndex has run on the existing index after the source file of a
\* document was deleted, and the entry of the document is still there, next
\* to the entry of another document.
C15_EntryOutlivesSource ==
    /\ upc = "returned"
    /\ uerr = Nil
    /\ ~isNewIndex
    /\ \E id, other \in IndexIds :
          /\ id # other
          /\ index[id] > 0
          /\ index[other] > 0
          /\ store[TexName(id)] = 0
          /\ \A i \in 1..Len(files) : files[i] # TexName(id)

(***************************************************************************)
(* updateIndex after a run that failed: claim C16.                         *)
(***************************************************************************)
\* C16: on an existing index an iteration that meets no failure stages a
\* document that was modified at or after the time the last run with a
\* committed batch set the marker to: a run that failed after it had set the
\* marker has not made the next run skip it.
C16_NoLostUpdate ==
    [][(/\ ScanStep /\ NoFailure /\ ~isNewIndex
        /\ store[ScannedFile] > 0
        /\ store[ScannedFile] >= committedAt)
          => batch'[ScannedId] = store[ScannedFile]
      ]_vars

(***************************************************************************)
(* The temp directory under concurrent renders: claim C17.                 *)
(***************************************************************************)
\* C17: a temporary file is removed only by deleteTemporaryFiles of the unit
\* that renders the identifier the file belongs to, never by the unit of
\* another identifier.
C17_TempPathIsolation ==
    [][\A f \in tmp \ tmp' :
          \E w \in Workers :
              /\ pc[w] = "deleteTemporaryFiles" /\ pc'[w] = "return"
              /\ cur[w] = f[1]
      ]_vars

(***************************************************************************)
(* One renderer value for many documents: claim C18.                       *)
(***************************************************************************)
\* C18: a run of renderScroll whose own stages have raised no error so far
\* invokes xelatex and convert and returns nil, whatever the runs of other
\* identifiers with the same renderer have raised; and whatever a run
\* returns is an error one of its own stages raised.
C18_FaultIsolation ==
    [][\A w \in Workers :
          /\ (pc[w] = "latexToPdf" /\ pc'[w] = "pdfToPng" /\ raised[w] = << >>)
                => "xelatex" \in work'[w]
          /\ (pc[w] = "pdfToPng" /\ pc'[w] = "deleteTemporaryFiles" /\ raised[w] = << >>)
                => "convert" \in work'[w]
          /\ (pc[w] = "return" /\ pc'[w] = "done") =>
                \/ ret'[w] = Nil
                \/ \E i \in 1..Len(raised[w]) : ret'[w] = Wrap(raised[w][i], "rendering")
      ]_vars

\* With one slot, a goroutine has rendered its document through all stages
\* and got nil after the run of another goroutine had ended with an error.
C18_RenderedAfterFailure ==
    /\ maxProcs = 1
    /\ \E v, w \in Workers :
          /\ v # w
          /\ wpc[v] = "exit"
          /\ raised[v] # << >>
          /\ wpc[w] = "render"
          /\ pc[w] = "done"
          /\ raised[w] = << >>
          /\ {"xelatex", "convert"} \subseteq work[w]
          /\ ret[w] = Nil

(***************************************************************************)
(* renderAllScrolls comes to an end: claim C19.                            *)
(***************************************************************************)
\* C19: under fair scheduling a call of renderAllScrolls that has started its
\* goroutines returns, and when it returns every goroutine has got its slot
\* and sent its result and the loop has received all of them: no goroutine
\* waits for a slot for ever and the loop never waits for ever to hand a slot
\* back.
C19_SchedulerTermination ==
    /\ (spc \in {"collect", "release"}) ~> (spc = "returned")
    /\ [](spc = "returned" =>
            /\ received = Len(sfiles)
            /\ ch = << >>
            /\ \A w \in 1..Len(sfiles) : wpc[w] = "exit")

\* renderAllScrolls has returned from a pass over more files than slots.
C19_ReturnedWithMoreFilesThanSlots ==
    /\ spc = "returned"
    /\ Len(sfiles) > maxProcs
    /\ received = Len(sfiles)

(***************************************************************************)
(* The slices of searchBleve and findScrolls: claim C20.                   *)
(***************************************************************************)
\* C20: whatever hits the query has and whichever of their source files have
\* been deleted, neither scrolls[:len(Hits)] in searchBleve (the step from
\* idle) nor the writes ids[i] in findScrolls (the step after the last
\* rendering) goes out of range: these steps, taken with no failure other
\* than the missing files, never end in a panic.
C20_FindInRange ==
    [][(/\ mode = "idle" \/ (mode = "find" /\ pc[Main] = "idle" /\ k = Len(results.IDs))
        /\ faults' = faults)
          => mode' # "panic"]_vars

====
